---- MODULE Spec2Model ----
(***************************************************************************)
(* Model of inventory_server.py: the three registered tools                *)
(* (get_all_products, get_sales_data, get_season) over the two CSV files   *)
(* and the wall clock.  A Python call either returns a value or raises;    *)
(* both outcomes are carried in an outcome record so that every try/except *)
(* of the source is an explicit case split.                                *)
(***************************************************************************)
EXTENDS Integers, Sequences, FiniteSets, TLC

(* ------------------------------ bounds -------------------------------- *)
MaxRows == 5        \* longest products table
MaxRowVal == 2      \* distinct row contents
MaxSalesRows == 1   \* longest sales table
MaxArg == 3         \* largest small limit/offset passed by a caller
MaxNeg == 1         \* most negative limit/offset passed by a caller

(* program constants: the defaults of get_all_products' signature *)
DefaultLimit == 100
DefaultOffset == 0

Min(a, b) == IF a < b THEN a ELSE b
Max(a, b) == IF a > b THEN a ELSE b

RowVals == 1..MaxRowVal
TablesUpTo(n) == UNION {[1..k -> RowVals] : k \in 0..n}

(* a file on disk: unreadable (missing, no permission), or a table of rows *)
FilesUpTo(n) ==
    {[readable |-> FALSE, rows |-> <<>>]}
        \cup {[readable |-> TRUE, rows |-> t] : t \in TablesUpTo(n)}

(* integer arguments a caller may pass *)
ArgVals == ((0 - MaxNeg)..MaxArg) \cup {10, DefaultLimit}
(* keyword bags: each of limit, offset is either passed or omitted *)
Kwargs == UNION {[S -> ArgVals] : S \in SUBSET {"limit", "offset"}}

(* datetime.now(): the part of the clock the handler reads *)
Days == {1, 28}
Months == 1..12
Years == {2026}
Clock == [day : Days, month : Months, year : Years]

VARIABLES
    products_csv,     \* the file at PRODUCTS_CSV
    sales_csv,        \* the file at SALES_DATA_CSV
    call,             \* the last tool invocation: tool, kwargs, now
    current_season,   \* get_season's local of that name ("none": not assigned)
    result            \* what the last tool invocation gave its caller

vars == <<products_csv, sales_csv, call, current_season, result>>

(* --------------------------- Python values ---------------------------- *)
NoSeason ==
    [current_date |-> <<>>, current_season |-> "none",
     high_priority_products |-> <<>>, medium_priority_products |-> <<>>,
     priority_multiplier |-> 0, recommendation |-> <<>>, error |-> "none"]

(* an outcome: raised, or returned a list (rows) or a dict (season) *)
Raise == [raised |-> TRUE, kind |-> "exception", rows |-> <<>>, season |-> NoSeason]
ReturnList(l) == [raised |-> FALSE, kind |-> "list", rows |-> l, season |-> NoSeason]
ReturnDict(d) == [raised |-> FALSE, kind |-> "dict", rows |-> <<>>, season |-> d]

(* s[start:stop] on a list, with Python's clamping of negative and large indices *)
PySlice(s, start, stop) ==
    LET n == Len(s)
        lo == IF start < 0 THEN Max(start + n, 0) ELSE Min(start, n)
        hi == IF stop < 0 THEN Max(stop + n, 0) ELSE Min(stop, n)
    IN  IF lo < hi THEN SubSeq(s, lo + 1, hi) ELSE <<>>

(* ", ".join(items): the items with the separator between neighbours *)
RECURSIVE join(_, _)
join(sep, items) ==
    IF Len(items) = 0 THEN <<>>
    ELSE IF Len(items) = 1 THEN <<items[1]>>
    ELSE <<items[1], sep>> \o join(sep, Tail(items))

(* now.strftime("%d/%m/%Y"): two-digit day, two-digit month, year *)
strftime(now) ==
    <<now.day \div 10, now.day % 10, "/",
      now.month \div 10, now.month % 10, "/", now.year>>

(* ------------------------------ the tools ----------------------------- *)
(* open(file_path) + csv.DictReader + list(reader): raises when unreadable *)
open_and_read(file) ==
    IF file.readable THEN ReturnList(file.rows) ELSE Raise

read_csv_file(file) ==
    LET r == open_and_read(file)
    IN  IF r.raised THEN ReturnList(<<>>) ELSE r

(* binding of the keyword bag to the signature's parameters *)
limit_of(kwargs) ==
    IF "limit" \in DOMAIN kwargs THEN kwargs["limit"] ELSE DefaultLimit
offset_of(kwargs) ==
    IF "offset" \in DOMAIN kwargs THEN kwargs["offset"] ELSE DefaultOffset

get_all_products_swapped(file, limit, offset) ==
    LET products == read_csv_file(file)
    IN  IF products.raised THEN ReturnList(<<>>)
        ELSE ReturnList(PySlice(products.rows, offset, limit))

get_all_products(file, limit, offset) ==
    LET products == read_csv_file(file)
    IN  IF products.raised THEN ReturnList(<<>>)
        ELSE ReturnList(PySlice(products.rows, offset, offset + limit))

get_sales_data(file) ==
    LET sales_data == read_csv_file(file)
    IN  IF sales_data.raised THEN ReturnList(<<>>) ELSE sales_data

(* multipliers are kept in tenths: 2.0 is 20, 1.8 is 18, 2.5 is 25, 1.3 is 13 *)
SEASONAL_PRODUCTS ==
    [summer |->
        [high_priority |-> <<"fan", "air conditioner", "ac", "cooler",
                             "sunscreen", "hat", "cap">>,
         medium_priority |-> <<"shorts", "t-shirt", "sandals", "sunglasses",
                               "water bottle">>,
         multiplier |-> 20],
     winter |->
        [high_priority |-> <<"heater", "jacket", "coat", "blanket", "gloves",
                             "scarf">>,
         medium_priority |-> <<"boots", "sweater", "warm clothes", "thermals">>,
         multiplier |-> 18],
     rainy |->
        [high_priority |-> <<"umbrella", "raincoat", "rain boots", "waterproof">>,
         medium_priority |-> <<"towel", "dryer", "dehumidifier">>,
         multiplier |-> 25],
     spring |->
        [high_priority |-> <<"allergy medicine", "light jacket",
                             "gardening tools">>,
         medium_priority |-> <<"casual wear", "sneakers">>,
         multiplier |-> 13]]

current_season_of_spring(current_month) ==
    IF current_month \in {12, 1, 2} THEN "winter"
    ELSE IF current_month \in {3, 4, 5} THEN "spring"
    ELSE IF current_month \in {6, 7, 8} THEN "rainy"
    ELSE "autumn"

(* the if/elif chain over current_month *)
current_season_of(current_month) ==
    IF current_month \in {12, 1, 2} THEN "winter"
    ELSE IF current_month \in {3, 4, 5} THEN "summer"
    ELSE IF current_month \in {6, 7, 8} THEN "rainy"
    ELSE "autumn"

(* the f-string of the recommendation, as its pieces in order *)
recommendation_of(season, priorities) ==
    <<"Current season is ", season, ". Focus on stocking ">>
        \o join(", ", PySlice(priorities.high_priority, 0, 3))
        \o <<" and related items.">>

(* the body of get_season's try block: SEASONAL_PRODUCTS[current_season],  *)
(* the eagerly evaluated default of .get, raises KeyError on a missing key *)
get_season_try(now) ==
    LET season == current_season_of(now.month)
    IN  IF season \notin DOMAIN SEASONAL_PRODUCTS THEN Raise
        ELSE LET priorities == SEASONAL_PRODUCTS[season]
             IN  ReturnDict(
                    [current_date |-> strftime(now),
                     current_season |-> season,
                     high_priority_products |-> priorities.high_priority,
                     medium_priority_products |-> priorities.medium_priority,
                     priority_multiplier |-> priorities.multiplier,
                     recommendation |-> recommendation_of(season, priorities),
                     error |-> "none"])

get_season_unguarded(now) == get_season_try(now)

(* except Exception as e: return {"error": str(e)}; str(KeyError(k)) is 'k' *)
get_season(now) ==
    LET r == get_season_try(now)
    IN  IF r.raised
        THEN ReturnDict([NoSeason EXCEPT
                            !.error = "'" \o current_season_of(now.month) \o "'"])
        ELSE r

(* ------------------------------ behaviour ----------------------------- *)
NoCall == [tool |-> "none", kwargs |-> <<>>, now |-> [day |-> 1, month |-> 1, year |-> 2026]]

Init ==
    /\ products_csv \in FilesUpTo(MaxRows)
    /\ sales_csv \in FilesUpTo(MaxSalesRows)
    /\ call = NoCall
    /\ current_season = "none"
    /\ result = [raised |-> FALSE, kind |-> "none", rows |-> <<>>, season |-> NoSeason]

CallGetAllProducts ==
    \E kwargs \in Kwargs :
        /\ call' = [tool |-> "get_all_products", kwargs |-> kwargs, now |-> NoCall.now]
        /\ result' = get_all_products(products_csv, limit_of(kwargs), offset_of(kwargs))
        /\ UNCHANGED <<products_csv, sales_csv, current_season>>

CallGetSalesData ==
    /\ call' = [tool |-> "get_sales_data", kwargs |-> <<>>, now |-> NoCall.now]
    /\ result' = get_sales_data(sales_csv)
    /\ UNCHANGED <<products_csv, sales_csv, current_season>>

CallGetSeason ==
    \E now \in Clock :
        /\ call' = [tool |-> "get_season", kwargs |-> <<>>, now |-> now]
        /\ current_season' = current_season_of(now.month)
        /\ result' = get_season(now)
        /\ UNCHANGED <<products_csv, sales_csv>>

Next == CallGetAllProducts \/ CallGetSalesData \/ CallGetSeason

Spec == Init /\ [][Next]_vars

(* ------------------------------- claims ------------------------------- *)

(* C1: with both arguments passed and non-negative, get_all_products       *)
(* returns exactly the rows T[offset] .. T[min(offset+limit, |T|)-1] in    *)
(* table order, at most limit of them, and nothing when offset >= |T|.     *)
C1_ContiguousSlice ==
    (/\ call.tool = "get_all_products"
     /\ products_csv.readable
     /\ DOMAIN call.kwargs = {"limit", "offset"}
     /\ call.kwargs["limit"] >= 0
     /\ call.kwargs["offset"] >= 0)
    => LET T == products_csv.rows
           limit == call.kwargs["limit"]
           offset == call.kwargs["offset"]
           last == IF offset + limit < Len(T) THEN offset + limit ELSE Len(T)
       IN  /\ ~result.raised
           /\ result.kind = "list"
           /\ result.rows = [i \in 1..(last - offset) |-> T[offset + i]]
           /\ Len(result.rows) <= limit
           /\ (offset >= Len(T) => result.rows = <<>>)

(* the 5-row example: limit=2, offset=1 gave the rows at 0-based 1 and 2 *)
C1_Witness ==
    /\ call.tool = "get_all_products"
    /\ products_csv.readable
    /\ Len(products_csv.rows) = 5
    /\ products_csv.rows[2] # products_csv.rows[3]
    /\ DOMAIN call.kwargs = {"limit", "offset"}
    /\ call.kwargs["limit"] = 2
    /\ call.kwargs["offset"] = 1
    /\ result.rows = <<products_csv.rows[2], products_csv.rows[3]>>

(* C2: a negative or absent limit acts as limit=100 and a negative or      *)
(* absent offset acts as offset=0: the result is the slice of the table    *)
(* taken with the offending values replaced by those defaults.             *)
C2_NegativeOrAbsentUsesDefault ==
    (call.tool = "get_all_products" /\ products_csv.readable)
    => LET T == products_csv.rows
           limit == IF "limit" \in DOMAIN call.kwargs /\ call.kwargs["limit"] >= 0
                    THEN call.kwargs["limit"] ELSE 100
           offset == IF "offset" \in DOMAIN call.kwargs /\ call.kwargs["offset"] >= 0
                     THEN call.kwargs["offset"] ELSE 0
           last == IF offset + limit < Len(T) THEN offset + limit ELSE Len(T)
       IN  result.rows = [i \in 1..(last - offset) |-> T[offset + i]]

(* C3: for every month, get_season's result names one of the four seasons  *)
(* of the priority table, carries exactly that season's high and medium    *)
(* lists and multiplier, and a recommendation built from the season's      *)
(* first three high-priority items.                                        *)
C3_SeasonResultFromTable ==
    call.tool = "get_season"
    => LET r == result.season
       IN  /\ r.current_season \in {"summer", "winter", "rainy", "spring"}
           /\ r.high_priority_products
                = SEASONAL_PRODUCTS[r.current_season].high_priority
           /\ r.medium_priority_products
                = SEASONAL_PRODUCTS[r.current_season].medium_priority
           /\ r.priority_multiplier
                = SEASONAL_PRODUCTS[r.current_season].multiplier
           /\ r.recommendation
                = <<"Current season is ", r.current_season, ". Focus on stocking ",
                    r.high_priority_products[1], ", ",
                    r.high_priority_products[2], ", ",
                    r.high_priority_products[3], " and related items.">>

(* C4: no tool raises to its caller; with the data file unreadable         *)
(* get_all_products and get_sales_data return the empty list whatever the  *)
(* arguments, and a failure inside get_season gives a dict with an error.  *)
C4_ToolsNeverRaise ==
    /\ ~result.raised
    /\ (call.tool = "get_all_products" /\ ~products_csv.readable)
        => (result.kind = "list" /\ result.rows = <<>>)
    /\ (call.tool = "get_sales_data" /\ ~sales_csv.readable)
        => (result.kind = "list" /\ result.rows = <<>>)
    /\ (call.tool = "get_season" /\ current_season \notin DOMAIN SEASONAL_PRODUCTS)
        => (result.kind = "dict" /\ result.season.error # "none")

(* a call with a negative offset against a missing products file *)
C4_Witness ==
    /\ call.tool = "get_all_products"
    /\ ~products_csv.readable
    /\ "offset" \in DOMAIN call.kwargs
    /\ call.kwargs["offset"] < 0
    /\ ~result.raised
    /\ result.rows = <<>>

(* C10 as stated: the autumn branch is never taken, every month selects    *)
(* winter, summer or rainy, and spring is never selected.                  *)
C10_AutumnUnreachable ==
    call.tool = "get_season"
    => (current_season \in {"winter", "summer", "rainy"} /\ current_season # "spring")

(* C10 amended: the autumn branch is taken exactly for months 9, 10, 11;   *)
(* months 12 and 1..8 select winter, summer or rainy; spring is never      *)
(* selected.                                                               *)
C10_AutumnExactlySepToNov ==
    call.tool = "get_season"
    => /\ current_season \in {"winter", "summer", "rainy", "autumn"}
       /\ current_season # "spring"
       /\ (current_season = "autumn" <=> call.now.month \in {9, 10, 11})
       /\ (call.now.month \in {12, 1, 2} => current_season = "winter")
       /\ (call.now.month \in {3, 4, 5} => current_season = "summer")
       /\ (call.now.month \in {6, 7, 8} => current_season = "rainy")

(* a call in October took the autumn branch *)
C10_Witness ==
    /\ call.tool = "get_season"
    /\ call.now.month = 10
    /\ current_season = "autumn"

====
